---- MODULE Spec2Model ----
(***************************************************************************)
(* Crypto-Price-Sonifier (src/src/main.rs): the page router MainApp with   *)
(* its fetch workers and channels, the chart session ChartApp with its     *)
(* playback sequencer, audio sink, image sequencer and image animation,    *)
(* and the daily reduction of fetch_data.                                  *)
(*                                                                         *)
(* Units.  Time is counted in ticks of 1/8 s (TicksPerSecond), so that     *)
(* dt * ANIMATION_SPEED is a whole number of thousandths per thousandth.   *)
(* scale and opacity are fixed-point thousandths (0.8 is 800).  Prices are *)
(* abstract positive levels.  Option<T> is a sequence of length 0 (None)   *)
(* or 1 (Some).  A calendar day "%Y-%m-%d" is the count of whole days      *)
(* since 1970-01-01, which the format maps one-to-one and in order.        *)
(***************************************************************************)
EXTENDS Integers, Sequences, FiniteSets, TLC

\* ------------------------------------------------------------- bounds
\* longest `prices` list of a response delivered to the router
MaxLen == 3
\* clicks on an asset icon in one run (one worker and one channel each)
MaxClicks == 2
\* largest value of animation_timer that is followed (ticks of 1/8 s)
MaxTimer == 17
\* largest magnitude of scale / opacity that is followed (thousandths)
MaxAnim == 16000
\* picks of each direction in the image sequencer harness
MaxPicks == 9
\* longest raw `prices` list in the daily-reduction harness
MaxRaw == 3
\* ticks of the long rising, falling and flat series of the session harness
MaxRun == 8

\* ---------------------------------------------------- program constants
TicksPerSecond == 8
MsPerSecond == 1000
SecondsPerDay == 86400
\* 2.0 s, main.rs:363
TickInterval == 2 * TicksPerSecond
ANIMATION_SPEED == 8
BULL_IMAGES == 7
BEAR_IMAGES == 4
INITIAL_SCALE == 800
INITIAL_OPACITY == 0
target_scale == 1000
target_opacity == 1000

None == <<>>
Some(x) == <<x>>
Abs(x) == IF x < 0 THEN -x ELSE x

Assets == {"ethereum", "bitcoin", "ripple"}
PriceSet == {1, 2}
\* predicted_dt of a frame: 0, 1/8 s, 2 s
DtSet == {0, 1, TickInterval}

\* the page a delivered coin name selects (main.rs:499-512)
PageOf(coin) ==
    CASE coin = "ethereum" -> "EthChart"
      [] coin = "bitcoin" -> "BtcChart"
      [] coin = "ripple" -> "XrpChart"
      [] OTHER -> "Selection"

\* the name each icon puts in LoadingState::Loading (main.rs:580, 627, 674)
LoadingName(coin) ==
    CASE coin = "ethereum" -> "Ethereum"
      [] coin = "bitcoin" -> "Bitcoin"
      [] OTHER -> "Ripple"

NotLoading == <<"NotLoading">>
Loading(name) == <<"Loading", name>>

\* ------------------------------------------------- fetch_data (144-162)
\* (timestamp / 1000.0) as i64, then the UTC calendar day of that second
DateOf(timestamp) == (timestamp \div MsPerSecond) \div SecondsPerDay

DailyPrice(date, price) == [date |-> date, price |-> price]

RECURSIVE ReduceFrom(_, _, _, _)
ReduceFrom(prices, i, daily_prices, last_date) ==
    IF i > Len(prices) THEN daily_prices
    ELSE LET date == DateOf(prices[i][1])
             price == prices[i][2]
         IN  IF last_date # Some(date)
             THEN ReduceFrom(prices, i + 1,
                             Append(daily_prices, DailyPrice(date, price)),
                             Some(date))
             ELSE ReduceFrom(prices, i + 1, daily_prices, last_date)

\* mutant: a later sample of the same day replaces the one kept
RECURSIVE ReduceLastFrom(_, _, _, _)
ReduceLastFrom(prices, i, daily_prices, last_date) ==
    IF i > Len(prices) THEN daily_prices
    ELSE LET date == DateOf(prices[i][1])
             price == prices[i][2]
         IN  IF last_date # Some(date)
             THEN ReduceLastFrom(prices, i + 1,
                                 Append(daily_prices, DailyPrice(date, price)),
                                 Some(date))
             ELSE ReduceLastFrom(prices, i + 1,
                                 [daily_prices EXCEPT ![Len(daily_prices)].price = price],
                                 last_date)

fetch_data_last(prices) == ReduceLastFrom(prices, 1, <<>>, None)

\* the daily reduction of a successfully parsed response
fetch_data(prices) == ReduceFrom(prices, 1, <<>>, None)

\* ---------------------------------------------- ImageSequencer (62-86)
ImageSequencer_new == [bull_index |-> 0, bear_index |-> 0]

get_next_bull_index(seq) ==
    [index |-> seq.bull_index,
     seq |-> [seq EXCEPT !.bull_index = (seq.bull_index + 1) % BULL_IMAGES]]

\* mutant: the bearish counter wraps at the bullish pool's size
get_next_bear_index_mod7(seq) ==
    [index |-> seq.bear_index,
     seq |-> [seq EXCEPT !.bear_index = (seq.bear_index + 1) % BULL_IMAGES]]

get_next_bear_index(seq) ==
    [index |-> seq.bear_index,
     seq |-> [seq EXCEPT !.bear_index = (seq.bear_index + 1) % BEAR_IMAGES]]

\* ----------------------------------------------- AnimatedImage (32-55)
AnimatedImage_new == [scale |-> INITIAL_SCALE, opacity |-> INITIAL_OPACITY]

animate(a, dt) ==
    [scale |-> a.scale
               + ((target_scale - a.scale) * dt * ANIMATION_SPEED) \div TicksPerSecond,
     opacity |-> a.opacity
               + ((target_opacity - a.opacity) * dt * ANIMATION_SPEED) \div TicksPerSecond]

\* ---------------------------------------------------- ChartApp (88-390)
\* sink is the number of sources queued in the rodio Sink (sound_output is
\* always Some); point_progress and float_offset only feed the drawing.
new_from_data(data) ==
    [daily_prices |-> data,
     current_index |-> 0,
     sink |-> 0,
     animation_timer |-> 0,
     bull_textures |-> {},
     bear_textures |-> {},
     current_texture_index |-> 0,
     image_animation |-> AnimatedImage_new,
     should_return_home |-> FALSE,
     image_sequencer |-> ImageSequencer_new]

\* main.rs:183, 203: the file of slot i (0-based) of a pool, bull1.png ...
FileOf(pool, i) == <<pool, i + 1>>

\* main.rs:179-219: every empty slot whose file opens is filled; one whose
\* file does not open stays empty (files is [missing, corrupt]: the files
\* that do not open, and those that open but do not decode). A pool of
\* textures, vec![None; 7] or vec![None; 4] at first (114-115), is held as
\* the set of its slots that are Some
load_image_if_needed(self, files) ==
    IF /\ self.bull_textures = 0..(BULL_IMAGES - 1)
       /\ self.bear_textures = 0..(BEAR_IMAGES - 1)
    THEN self
    ELSE [self EXCEPT
            !.bull_textures = @ \cup
                {i \in (0..(BULL_IMAGES - 1)) \ @ : FileOf("bull", i) \notin files.missing},
            !.bear_textures = @ \cup
                {i \in (0..(BEAR_IMAGES - 1)) \ @ : FileOf("bear", i) \notin files.missing}]

\* main.rs:393-397: load_image_from_path unwraps the decoding of a file
\* that opened
LoadPanics(self, files) ==
    /\ files.corrupt # {}
    /\ \/ \E i \in 0..(BULL_IMAGES - 1) :
             i \notin self.bull_textures /\ FileOf("bull", i) \in files.corrupt
       \/ \E i \in 0..(BEAR_IMAGES - 1) :
             i \notin self.bear_textures /\ FileOf("bear", i) \in files.corrupt

\* main.rs:321: the pool the render step shows for day current_index > 0
IsBullish(self) ==
    self.daily_prices[self.current_index + 1].price
        >= self.daily_prices[self.current_index].price

\* main.rs:336-340: the pool the render step indexes, and its length
SelectedPool(self) ==
    IF IsBullish(self) THEN self.bull_textures ELSE self.bear_textures

PoolLen(self) == IF IsBullish(self) THEN BULL_IMAGES ELSE BEAR_IMAGES

\* mutant: the render step unwraps a mascot texture before looking at
\* current_index
RenderPanics_eager(self) ==
    \/ Len(self.daily_prices) = 0
    \/ self.current_texture_index \notin self.bull_textures
    \/ /\ self.current_index > 0
       /\ \/ self.current_texture_index >= PoolLen(self)
          \/ self.current_texture_index \notin SelectedPool(self)

\* main.rs:245: daily_prices.len()-1 on an empty series (overflow in a debug
\* build, an out-of-range slice [..=0] in a release build): a panic either way.
\* main.rs:318-340: with current_index > 0 the selected pool is indexed by
\* current_texture_index (a panic when out of bounds) and unwrapped (a panic
\* when the slot is empty)
RenderPanics(self) ==
    \/ Len(self.daily_prices) = 0
    \/ /\ self.current_index > 0
       /\ \/ self.current_texture_index >= PoolLen(self)
          \/ self.current_texture_index \notin SelectedPool(self)

\* mutant: the cursor test stops one day early
TickDue_early(self) ==
    /\ self.animation_timer >= TickInterval
    /\ self.current_index + 1 < Len(self.daily_prices) - 1

\* main.rs:363: the condition of a sequencer tick, once the sink is empty
TickDue(self) ==
    /\ self.animation_timer >= TickInterval
    /\ self.current_index < Len(self.daily_prices) - 1

\* mutant: the tick takes the bullish counter when the price falls
PickBull_falls(current_price, next_price) == current_price > next_price

\* main.rs:381-385: which counter a tick takes the image index from
PickBull(current_price, next_price) == current_price < next_price

\* mutant: the cursor is incremented twice in a tick
Tick_twice(self) ==
    LET current_price == self.daily_prices[self.current_index + 1].price
        next_price == self.daily_prices[self.current_index + 2].price
        pick == IF PickBull(current_price, next_price)
                THEN get_next_bull_index(self.image_sequencer)
                ELSE get_next_bear_index(self.image_sequencer)
    IN  [self EXCEPT !.sink = @ + 1,
                     !.image_animation = AnimatedImage_new,
                     !.current_index = @ + 2,
                     !.animation_timer = 0,
                     !.current_texture_index = pick.index,
                     !.image_sequencer = pick.seq]

\* mutant: the tick leaves the entrance animation where it is
Tick_noreset(self) ==
    LET current_price == self.daily_prices[self.current_index + 1].price
        next_price == self.daily_prices[self.current_index + 2].price
        pick == IF PickBull(current_price, next_price)
                THEN get_next_bull_index(self.image_sequencer)
                ELSE get_next_bear_index(self.image_sequencer)
    IN  [self EXCEPT !.sink = @ + 1,
                     !.current_index = @ + 1,
                     !.animation_timer = 0,
                     !.current_texture_index = pick.index,
                     !.image_sequencer = pick.seq]

\* main.rs:364-385: the tick
Tick(self) ==
    LET current_price == self.daily_prices[self.current_index + 1].price
        next_price == self.daily_prices[self.current_index + 2].price
        pick == IF PickBull(current_price, next_price)
                THEN get_next_bull_index(self.image_sequencer)
                ELSE get_next_bear_index(self.image_sequencer)
    IN  [self EXCEPT !.sink = @ + 1,
                     !.image_animation = AnimatedImage_new,
                     !.current_index = @ + 1,
                     !.animation_timer = 0,
                     !.current_texture_index = pick.index,
                     !.image_sequencer = pick.seq]

\* mutant: the frame does not look at the sink
SinkBusy_never(self) == FALSE

\* main.rs:356-361: a tone is still playing, the frame returns early
SinkBusy(self) == self.sink # 0

\* mutant: the animation reset and timer restart are outside the cursor test
ChartApp_update_reset(self, dt, back) ==
    LET s1 == [self EXCEPT !.image_animation = animate(@, dt),
                           !.should_return_home = @ \/ back,
                           !.animation_timer = @ + dt]
    IN  IF SinkBusy(s1) THEN s1
        ELSE IF TickDue(s1) THEN Tick(s1)
        ELSE IF s1.animation_timer >= TickInterval
        THEN [s1 EXCEPT !.image_animation = AnimatedImage_new,
                        !.animation_timer = 0]
        ELSE s1

\* main.rs:223-389: one frame of a chart page over a non-empty series
ChartApp_update(self, dt, back) ==
    LET s1 == [self EXCEPT !.image_animation = animate(@, dt),
                           !.should_return_home = @ \/ back,
                           !.animation_timer = @ + dt]
    IN  IF SinkBusy(s1) THEN s1
        ELSE IF TickDue(s1) THEN Tick(s1)
        ELSE s1

\* ------------------------------------------------------------ state
VARIABLES
    current_page,    \* MainApp.current_page: "Selection", "EthChart", ...
    charts,          \* eth_chart / btc_chart / xrp_chart, keyed by coin: Option<ChartApp>
    loading_state,   \* MainApp.loading_state
    data_receiver,   \* MainApp.data_receiver: Option of the channel it reads
    workers,         \* one per click, in click order: the fetch thread and its channel
    crashed,         \* the process was terminated by a panic
    assets,          \* the mascot files of ./assets that do not open or decode
    iseq, nbull, nbear, ret,   \* an ImageSequencer driven pick by pick
    response, fetched          \* a parsed response and its daily reduction

appVars == <<current_page, charts, loading_state, data_receiver, workers, crashed,
             assets>>
seqVars == <<iseq, nbull, nbear, ret>>
fetchVars == <<response, fetched>>
vars == <<appVars, seqVars, fetchVars>>

\* the `prices` lists a worker of the router may receive: one sample per
\* day, in time order, at most MaxLen of them
ResponseOf(ps) ==
    [i \in 1..Len(ps) |-> <<(i - 1) * SecondsPerDay * MsPerSecond, ps[i]>>]

Responses ==
    {ResponseOf(ps) : ps \in UNION {[1..n -> PriceSet] : n \in 0..MaxLen}}

\* the raw `prices` lists of the daily-reduction harness: any order, any
\* repetition of four instants on three days
TsSet ==
    {0, (SecondsPerDay \div 2) * MsPerSecond,
     SecondsPerDay * MsPerSecond, 2 * SecondsPerDay * MsPerSecond}

RawInputs == UNION {[1..n -> TsSet \X PriceSet] : n \in 0..MaxRaw}

\* every mascot file opens and decodes
AllAssets == [missing |-> {}, corrupt |-> {}]

\* MainApp::new (481-491)
AppInit ==
    /\ assets = AllAssets
    /\ current_page = "Selection"
    /\ charts = [a \in Assets |-> None]
    /\ loading_state = NotLoading
    /\ data_receiver = None
    /\ workers = <<>>
    /\ crashed = FALSE

SeqIdle ==
    /\ iseq = ImageSequencer_new
    /\ nbull = 0
    /\ nbear = 0
    /\ ret = None

FetchIdle ==
    /\ response = <<>>
    /\ fetched = None

Init == AppInit /\ SeqIdle /\ FetchIdle

\* ------------------------------------------------ MainApp::update (495-776)
CoinOf(page) == CHOOSE a \in Assets : PageOf(a) = page

\* the frames the model follows: the timer and the animation stay in range
DtInRange(self, dt) ==
    /\ self.animation_timer + dt <= MaxTimer
    /\ Abs(animate(self.image_animation, dt).scale) <= MaxAnim
    /\ Abs(animate(self.image_animation, dt).opacity) <= MaxAnim

\* 580-590, 627-637, 674-684: a click on an icon replaces the receiver
\* (the old channel's queue is dropped with it) and spawns a worker
Spawn(ws, coin) ==
    Append([c \in 1..Len(ws) |-> [ws[c] EXCEPT !.queue = <<>>]],
           [coin |-> coin, status |-> "running", queue |-> <<>>])

\* mutant: the router leaves the chart page but keeps the session
ReturnHome_keep(cs, a, s) == [cs EXCEPT ![a] = Some(s)]

\* 748-774: what a chart page leaves behind when the frame ends
ReturnHome(cs, a, s) ==
    IF s.should_return_home THEN [cs EXCEPT ![a] = None]
    ELSE [cs EXCEPT ![a] = Some(s)]

\* an input the frame does not read is given its neutral value: audio_ok
\* when nothing was received, click on a chart page, back and dt on Selection
Relevant(received, on_chart, click, back, dt, audio_ok) ==
    /\ ~received => audio_ok
    /\ on_chart => click = "none"
    /\ ~on_chart => (~back /\ dt = 0)

\* 496-518: the poll of the channel at the start of a frame. A message that
\* arrived is taken
Received == data_receiver # None /\ workers[data_receiver[1]].queue # <<>>

Message == Head(workers[data_receiver[1]].queue)

\* mutant: the poll reads the message and leaves it in the channel
PollWorkers_peek == workers

\* 497: try_recv removes the message
PollWorkers ==
    IF Received THEN [workers EXCEPT ![data_receiver[1]].queue = <<>>]
    ELSE workers

\* 497-498: the session can be built from the message
Created(audio_ok) == Received /\ audio_ok

\* 500, 504, 508: the chart field of the delivered coin
PollCharts(audio_ok) ==
    IF Created(audio_ok)
    THEN [charts EXCEPT ![Message.coin] = Some(new_from_data(Message.data))]
    ELSE charts

\* mutant: the poll stores the session it builds and leaves the page alone
PollPage_stays(audio_ok) == current_page

\* 501, 505, 509: the page of the delivered coin
PollPage(audio_ok) ==
    IF Created(audio_ok) THEN PageOf(Message.coin) ELSE current_page

\* mutant: the poll does not put loading_state back to NotLoading
PollLoading_stays(audio_ok) == loading_state

\* 514
PollLoading(audio_ok) ==
    IF Created(audio_ok) THEN NotLoading ELSE loading_state

\* 515
PollReceiver(audio_ok) ==
    IF Created(audio_ok) THEN None ELSE data_receiver

\* one frame: click is the icon clicked ("none" for none), back the Back
\* button, dt the predicted_dt, audio_ok whether the audio output opens
MainApp_update(click, back, dt, audio_ok) ==
    /\ ~crashed
    /\ LET received == Received
           workers1 == PollWorkers
           charts1 == PollCharts(audio_ok)
           page1 == PollPage(audio_ok)
           loading1 == PollLoading(audio_ok)
           receiver1 == PollReceiver(audio_ok)
       IN  IF page1 = "Selection"
           THEN /\ Relevant(received, FALSE, click, back, dt, audio_ok)
                /\ current_page' = page1
                /\ charts' = charts1
                /\ crashed' = FALSE
                /\ IF click = "none"
                   THEN /\ loading_state' = loading1
                        /\ data_receiver' = receiver1
                        /\ workers' = workers1
                   ELSE /\ Len(workers) < MaxClicks
                        /\ loading_state' = Loading(LoadingName(click))
                        /\ data_receiver' = Some(Len(workers) + 1)
                        /\ workers' = Spawn(workers1, click)
           ELSE LET a == CoinOf(page1)
                    self == load_image_if_needed(charts1[a][1], assets)
                    after == ChartApp_update(self, dt, back)
                IN  /\ Relevant(received, TRUE, click, back, dt, audio_ok)
                    /\ loading_state' = loading1
                    /\ data_receiver' = receiver1
                    /\ workers' = workers1
                    /\ IF LoadPanics(charts1[a][1], assets)
                       THEN /\ crashed' = TRUE
                            /\ current_page' = page1
                            /\ charts' = charts1
                       ELSE IF RenderPanics(self)
                       THEN /\ crashed' = TRUE
                            /\ current_page' = page1
                            /\ charts' = [charts1 EXCEPT ![a] = Some(self)]
                       ELSE /\ DtInRange(self, dt)
                            /\ crashed' = FALSE
                            /\ charts' = ReturnHome(charts1, a, after)
                            /\ current_page' = IF after.should_return_home
                                               THEN "Selection" ELSE page1
    /\ UNCHANGED <<assets, seqVars, fetchVars>>

Frame ==
    \E click \in Assets \cup {"none"}, back \in BOOLEAN, dt \in DtSet,
       audio_ok \in BOOLEAN :
        MainApp_update(click, back, dt, audio_ok)

\* mutant: every worker sends under the name of the bitcoin block
WorkerSucceeds_bitcoin(c, prices) ==
    /\ ~crashed
    /\ workers[c].status = "running"
    /\ data_receiver # Some(c) => prices = <<>>
    /\ workers' = [workers EXCEPT
           ![c].status = "done",
           ![c].queue = IF data_receiver = Some(c)
                        THEN <<[coin |-> "bitcoin", data |-> fetch_data(prices)]>>
                        ELSE <<>>]
    /\ UNCHANGED <<current_page, charts, loading_state, data_receiver, crashed, assets>>
    /\ UNCHANGED <<iseq, nbull, nbear, ret, response, fetched>>

\* mutant: a failed fetch sends an empty series instead of nothing
WorkerFails_sends(c) ==
    /\ ~crashed
    /\ workers[c].status = "running"
    /\ workers' = [workers EXCEPT
           ![c].status = "failed",
           ![c].queue = IF data_receiver = Some(c)
                        THEN <<[coin |-> workers[c].coin, data |-> <<>>]>>
                        ELSE <<>>]
    /\ UNCHANGED <<current_page, charts, loading_state, data_receiver, crashed, assets>>
    /\ UNCHANGED <<iseq, nbull, nbear, ret, response, fetched>>

\* mutant: all workers send on one channel, read by whichever receiver the
\* router holds
WorkerSucceeds_shared(c, prices) ==
    /\ ~crashed
    /\ workers[c].status = "running"
    /\ data_receiver = None => prices = <<>>
    /\ workers' = IF data_receiver = None
                  THEN [workers EXCEPT ![c].status = "done"]
                  ELSE [[workers EXCEPT ![c].status = "done"] EXCEPT
                           ![data_receiver[1]].queue =
                               <<[coin |-> workers[c].coin, data |-> fetch_data(prices)]>>]
    /\ UNCHANGED <<current_page, charts, loading_state, data_receiver, crashed, assets>>
    /\ UNCHANGED <<iseq, nbull, nbear, ret, response, fetched>>

\* 585-590: the worker's fetch succeeded; it sends (coin, data) on its
\* channel, which fails silently when the receiver is gone (the data is then
\* dropped unread, so the empty response stands for every response)
WorkerSucceeds(c, prices) ==
    /\ ~crashed
    /\ workers[c].status = "running"
    /\ data_receiver # Some(c) => prices = <<>>
    /\ workers' = [workers EXCEPT
           ![c].status = "done",
           ![c].queue = IF data_receiver = Some(c)
                        THEN <<[coin |-> workers[c].coin, data |-> fetch_data(prices)]>>
                        ELSE <<>>]
    /\ UNCHANGED <<current_page, charts, loading_state, data_receiver, crashed, assets>>
    /\ UNCHANGED <<seqVars, fetchVars>>

\* 586: fetch_data returned Err (network or parse failure): nothing is sent
WorkerFails(c) ==
    /\ ~crashed
    /\ workers[c].status = "running"
    /\ workers' = [workers EXCEPT ![c].status = "failed"]
    /\ UNCHANGED <<current_page, charts, loading_state, data_receiver, crashed, assets>>
    /\ UNCHANGED <<seqVars, fetchVars>>

\* the audio thread finishes the tone at the head of the sink (175: 2000 ms)
ToneFinishes(a) ==
    /\ ~crashed
    /\ charts[a] # None
    /\ charts[a][1].sink > 0
    /\ charts' = [charts EXCEPT ![a] = Some([charts[a][1] EXCEPT !.sink = @ - 1])]
    /\ UNCHANGED <<current_page, loading_state, data_receiver, workers, crashed, assets>>
    /\ UNCHANGED <<seqVars, fetchVars>>

Next ==
    \/ Frame
    \/ \E c \in 1..Len(workers), prices \in Responses : WorkerSucceeds(c, prices)
    \/ \E c \in 1..Len(workers) : WorkerFails(c)
    \/ \E a \in Assets : ToneFinishes(a)

Spec == Init /\ [][Next]_vars

\* ------------------------------------- the image sequencer, pick by pick
BullPick ==
    /\ nbull < MaxPicks
    /\ iseq' = get_next_bull_index(iseq).seq
    /\ ret' = Some([kind |-> "bull", index |-> get_next_bull_index(iseq).index])
    /\ nbull' = nbull + 1
    /\ UNCHANGED <<nbear, appVars, fetchVars>>

BearPick ==
    /\ nbear < MaxPicks
    /\ iseq' = get_next_bear_index(iseq).seq
    /\ ret' = Some([kind |-> "bear", index |-> get_next_bear_index(iseq).index])
    /\ nbear' = nbear + 1
    /\ UNCHANGED <<nbull, appVars, fetchVars>>

SeqNext == BullPick \/ BearPick

SeqSpec == Init /\ [][SeqNext]_vars

\* ------------------------------------- the daily reduction, input by input
FetchInit ==
    /\ AppInit
    /\ SeqIdle
    /\ response \in RawInputs
    /\ fetched = None

Reduce ==
    /\ fetched = None
    /\ fetched' = Some(fetch_data(response))
    /\ UNCHANGED <<response, appVars, seqVars>>

FetchNext == Reduce

FetchSpec == FetchInit /\ [][FetchNext]_vars

\* ------------------------------------------------- one chart session
\* The session of one click, under every state of ./assets that is followed
\* and over series long enough for both image counters to wrap.
MissingSets == SUBSET {FileOf("bull", 0), FileOf("bull", 1), FileOf("bear", 0)}
CorruptSets == {{}, {FileOf("bear", BEAR_IMAGES - 1)}}
AssetConfigs == {[missing |-> m, corrupt |-> c] : m \in MissingSets, c \in CorruptSets}

\* a price that rises, falls or stays on each of MaxRun days
Runs ==
    {ResponseOf([i \in 1..(MaxRun + 1) |-> i]),
     ResponseOf([i \in 1..(MaxRun + 1) |-> MaxRun + 2 - i]),
     ResponseOf([i \in 1..(MaxRun + 1) |-> 1])}

ChartResponses == Responses \cup Runs

\* the state the frame of the click on the Ethereum icon leaves (576-591)
Clicked ==
    /\ current_page = "Selection"
    /\ charts = [a \in Assets |-> None]
    /\ loading_state = Loading(LoadingName("ethereum"))
    /\ data_receiver = Some(1)
    /\ workers = Spawn(<<>>, "ethereum")
    /\ crashed = FALSE

ChartInit == assets \in AssetConfigs /\ Clicked /\ SeqIdle /\ FetchIdle

\* a frame in which no icon is clicked
ChartFrame ==
    \E back \in BOOLEAN, dt \in DtSet : MainApp_update("none", back, dt, TRUE)

ChartNext ==
    \/ ChartFrame
    \/ \E prices \in ChartResponses : WorkerSucceeds(1, prices)
    \/ \E a \in Assets : ToneFinishes(a)

ChartSpec == ChartInit /\ [][ChartNext]_vars

\* ------------------------------------------- playback that is kept going
\* One click whose user never goes back, with every mascot file in place.
\* A chart page asks for the next frame in every frame (358, 388), so frames
\* keep coming, and among them frames with elapsed time; the audio thread
\* plays every queued tone to its end (175: 2000 ms each).
PlayInit == assets = AllAssets /\ Clicked /\ SeqIdle /\ FetchIdle

PlayFrame == \E dt \in DtSet : MainApp_update("none", FALSE, dt, TRUE)

PositiveFrame == \E dt \in DtSet \ {0} : MainApp_update("none", FALSE, dt, TRUE)

PlayNext ==
    \/ PlayFrame
    \/ \E prices \in Responses : WorkerSucceeds(1, prices)
    \/ \E a \in Assets : ToneFinishes(a)

PlaySpec ==
    /\ PlayInit
    /\ [][PlayNext]_vars
    /\ WF_vars(PlayFrame)
    /\ WF_vars(PositiveFrame)
    /\ \A a \in Assets : WF_vars(ToneFinishes(a))

\* ------------------------------------------ delivery that is kept going
\* The router with an audio output that initialises and a user who does not
\* go back. The worker asks for a frame after it has sent (588), and the
\* loading overlay and the chart page ask for the next frame in every frame,
\* so frames keep coming. The frames followed have no elapsed time: the
\* session that is entered is not played.
DeliverFrame ==
    \E click \in Assets \cup {"none"} : MainApp_update(click, FALSE, 0, TRUE)

DeliverNext ==
    \/ DeliverFrame
    \/ \E c \in 1..Len(workers), prices \in Responses : WorkerSucceeds(c, prices)
    \/ \E c \in 1..Len(workers) : WorkerFails(c)

DeliverSpec == Init /\ [][DeliverNext]_vars /\ WF_vars(DeliverFrame)

\* ---------------------------------------------------------------- claims
HasSession(a) == charts[a] # None
Session(a) == charts[a][1]
LastIndex(self) == Len(self.daily_prices) - 1

\* the session the chart page of coin a starts the frame t -> t' with: the
\* one it had, or the one this frame creates from the delivered data
Before(a) ==
    IF HasSession(a) THEN Session(a)
    ELSE new_from_data(charts'[a][1].daily_prices)

\* a chart frame of coin a whose session is still there when it ends
Kept(a) == charts'[a] # None /\ Len(charts'[a][1].daily_prices) > 0

\* ... and in which the cursor moved
Advanced(a) ==
    Kept(a) /\ charts'[a][1].current_index # Before(a).current_index

Days(prices) == {DateOf(prices[i][1]) : i \in 1..Len(prices)}
FirstOfDay(prices, d) ==
    CHOOSE i \in 1..Len(prices) :
        /\ DateOf(prices[i][1]) = d
        /\ \A j \in 1..(i - 1) : DateOf(prices[j][1]) # d

\* one entry per day, ascending, each with the price of the day's first sample
DailyReduced(prices, daily) ==
    /\ \A i, j \in 1..Len(daily) : i < j => daily[i].date < daily[j].date
    /\ \A k \in 1..Len(daily) :
          /\ daily[k].date \in Days(prices)
          /\ daily[k].price = prices[FirstOfDay(prices, daily[k].date)][2]

DaysInOrder(prices) ==
    \A i, j \in 1..Len(prices) : i < j => DateOf(prices[i][1]) <= DateOf(prices[j][1])

C2_NonEmpty ==
    /\ \A c \in 1..Len(workers) :
          \A m \in 1..Len(workers[c].queue) : Len(workers[c].queue[m].data) > 0
    /\ \A a \in Assets : HasSession(a) => Len(Session(a).daily_prices) > 0
    /\ ~crashed

\* C3: over a non-empty series of length n the cursor stays in 0..n-1, a
\* session starts at 0 (its first frame may already tick once), the cursor
\* never decreases and a frame changes it by 0 or +1.
C3_Cursor ==
    /\ [](\A a \in Assets :
            (HasSession(a) /\ Len(Session(a).daily_prices) > 0) =>
                /\ Session(a).current_index >= 0
                /\ Session(a).current_index <= LastIndex(Session(a)))
    /\ [][\A a \in Assets : Kept(a) =>
            IF HasSession(a)
            THEN charts'[a][1].current_index \in
                     {Session(a).current_index, Session(a).current_index + 1}
            ELSE \/ charts'[a][1].current_index = 0
                 \/ /\ charts'[a][1].current_index = 1
                    /\ charts'[a][1].sink = 1]_vars

\* a session of three days played to its last day
C3_Witness ==
    \E a \in Assets :
        /\ HasSession(a)
        /\ Len(Session(a).daily_prices) = 3
        /\ Session(a).current_index = 2

\* C4: the cursor advances in a frame only if the sink is empty, the timer
\* with this frame's dt has reached 2.0 s and the cursor is below length-1;
\* the advance resets the timer; while a tone plays, no frame advances the
\* cursor or enqueues a tone.
C4_TickGate ==
    [][\A a \in Assets :
        /\ Advanced(a) =>
              /\ Before(a).sink = 0
              /\ Before(a).current_index < LastIndex(Before(a))
              /\ charts'[a][1].animation_timer = 0
              /\ \A click \in Assets \cup {"none"}, back \in BOOLEAN,
                    dt \in DtSet, audio_ok \in BOOLEAN :
                     MainApp_update(click, back, dt, audio_ok) =>
                         Before(a).animation_timer + dt >= TickInterval
        /\ (Kept(a) /\ Before(a).sink # 0) =>
              /\ charts'[a][1].current_index = Before(a).current_index
              /\ charts'[a][1].sink <= Before(a).sink]_vars

\* after a tick, frames have passed while its tone is still playing
C4_Witness ==
    \E a \in Assets :
        /\ HasSession(a)
        /\ Session(a).current_index = 1
        /\ Session(a).sink = 1
        /\ Session(a).animation_timer >= TickInterval

\* C5: a tick from day i to day i+1 takes the image index from the bullish
\* counter when price[i+1] - price[i] >= 0 (equal prices included) and from
\* the bearish counter when it is < 0.
C5_PoolOfTick ==
    [][\A a \in Assets : Advanced(a) =>
        LET i == Before(a).current_index
            delta == Before(a).daily_prices[i + 2].price
                         - Before(a).daily_prices[i + 1].price
            picked == IF delta >= 0
                      THEN get_next_bull_index(Before(a).image_sequencer)
                      ELSE get_next_bear_index(Before(a).image_sequencer)
        IN  /\ charts'[a][1].current_texture_index = picked.index
            /\ charts'[a][1].image_sequencer = picked.seq]_vars

\* C6: in a fresh sequencer the k-th bullish pick returns k mod 7 and the
\* k-th bearish pick k mod 4 (k = 0, 1, ...) under every interleaving, and a
\* pick of one direction leaves the other direction's counter unchanged.
C6_RoundRobin ==
    /\ [](ret # None =>
            IF ret[1].kind = "bull"
            THEN ret[1].index = (nbull - 1) % 7
            ELSE ret[1].index = (nbear - 1) % 4)
    /\ [][/\ nbull' # nbull => iseq'.bear_index = iseq.bear_index
          /\ nbear' # nbear => iseq'.bull_index = iseq.bull_index]_vars

\* both counters have wrapped, and the bearish pick after the wrap returned 0
C6_Witness ==
    /\ nbull = 8
    /\ nbear = 5
    /\ ret = Some([kind |-> "bear", index |-> 0])

\* C7: two consecutive days shown from the same pool never show the same
\* image (which full coverage of a pool before any repeat would imply).
C7_NoRepeat ==
    [][\A a \in Assets :
        (Advanced(a) /\ Before(a).current_index > 0
            /\ IsBullish(Before(a)) = IsBullish(charts'[a][1])) =>
                charts'[a][1].current_texture_index
                    # Before(a).current_texture_index]_vars

Finished(a) ==
    /\ HasSession(a)
    /\ Len(Session(a).daily_prices) > 0
    /\ Session(a).current_index = LastIndex(Session(a))

\* C8: once the cursor is at length-1, no frame changes it, enqueues a tone,
\* advances an image counter or resets the animation, and in every such
\* frame the Back button is there and returns the router to Selection.
C8_Finished ==
    /\ [](\A a \in Assets : Finished(a) =>
            /\ current_page = PageOf(a)
            /\ ENABLED MainApp_update("none", TRUE, 0, TRUE))
    /\ [][\A a \in Assets : Finished(a) =>
            /\ Kept(a) =>
                  /\ charts'[a][1].current_index = Session(a).current_index
                  /\ charts'[a][1].sink <= Session(a).sink
                  /\ charts'[a][1].image_sequencer = Session(a).image_sequencer
                  /\ charts'[a][1].current_texture_index
                         = Session(a).current_texture_index
                  /\ \E dt \in DtSet :
                         charts'[a][1].image_animation
                             = animate(Session(a).image_animation, dt)
            /\ \A dt \in DtSet : MainApp_update("none", TRUE, dt, TRUE) =>
                  /\ current_page' = "Selection"
                  /\ charts'[a] = None]_vars
    /\ [][\A a \in Assets :
            (~HasSession(a) /\ Kept(a) /\ Len(charts'[a][1].daily_prices) = 1) =>
                /\ charts'[a][1].current_index = 0
                /\ charts'[a][1].sink = 0
                /\ charts'[a][1].image_sequencer = ImageSequencer_new]_vars

\* a series of two days played to the end; the tone is over and the timer
\* has run past the interval again without a further tick
C8_Witness ==
    \E a \in Assets :
        /\ Finished(a)
        /\ Len(Session(a).daily_prices) = 2
        /\ Session(a).sink = 0
        /\ Session(a).animation_timer > TickInterval
        /\ Session(a).image_animation = [scale |-> target_scale, opacity |-> target_opacity]

\* C9: the router enters the chart page of an asset only in a frame whose
\* poll yields a message for that asset, sent by the worker that a click on
\* that asset started; never on the click itself.
C9_EnterOnDelivery ==
    [][/\ \A a \in Assets :
            (charts[a] = None /\ charts'[a] # None) =>
                /\ current_page = "Selection"
                /\ data_receiver # None
                /\ workers[data_receiver[1]].status = "done"
                /\ workers[data_receiver[1]].coin = a
                /\ workers[data_receiver[1]].queue # <<>>
                /\ Head(workers[data_receiver[1]].queue).coin = a
                /\ workers'[data_receiver[1]].queue = <<>>
                /\ Len(workers') = Len(workers)
       /\ current_page' # current_page =>
            \/ current_page' = "Selection"
            \/ \E a \in Assets :
                  /\ charts[a] = None /\ charts'[a] # None
                  /\ current_page' =
                         (CASE a = "ethereum" -> "EthChart"
                            [] a = "bitcoin" -> "BtcChart"
                            [] a = "ripple" -> "XrpChart")
       /\ Len(workers') # Len(workers) =>
            (current_page' = "Selection" /\ charts' = charts)]_vars

\* the chart page of the second asset clicked, after a first click on another
C9_Witness ==
    /\ Len(workers) = 2
    /\ workers[1].coin = "ethereum"
    /\ workers[2].coin = "ripple"
    /\ current_page = "XrpChart"
    /\ charts["ripple"] # None

FetchFailed ==
    /\ data_receiver # None
    /\ workers[data_receiver[1]].status = "failed"

\* C10: when the fetch of the current selection has failed, nothing was sent
\* and no error is recorded: the router is in Selection and loading_state is
\* Loading, and stays so in every frame without a new click.
C10_SilentStall ==
    /\ [](FetchFailed =>
            /\ workers[data_receiver[1]].queue = <<>>
            /\ current_page = "Selection"
            /\ loading_state = Loading(LoadingName(workers[data_receiver[1]].coin))
            /\ \A a \in Assets : charts[a] = None)
    /\ [][(FetchFailed /\ Len(workers') = Len(workers)) =>
            /\ FetchFailed'
            /\ data_receiver' = data_receiver
            /\ current_page' = "Selection"
            /\ loading_state' = loading_state]_vars

\* the fetch of the second click failed, after the first worker had finished
C10_Witness ==
    /\ FetchFailed
    /\ data_receiver = Some(2)
    /\ workers[1].status = "done"
    /\ workers[2].coin = "bitcoin"

\* a session as the frame that created it leaves it: nothing but that one
\* frame (at most one tick) has acted on the values of new_from_data
FreshAfterOneFrame(s) ==
    \/ /\ s.current_index = 0
       /\ s.animation_timer \in DtSet
       /\ s.image_sequencer = ImageSequencer_new
       /\ s.current_texture_index = 0
       /\ s.sink = 0
    \/ /\ s.current_index = 1
       /\ s.animation_timer = 0
       /\ s.image_sequencer.bull_index + s.image_sequencer.bear_index = 1
       /\ s.current_texture_index = 0
       /\ s.sink = 1

\* C11: a frame in which Back is clicked on a chart page ends in Selection
\* with no session, no receiver and no message left, and no session outlives
\* its return flag; a session appears only from a message on the current
\* receiver, a receiver only from a click that starts a new fetch, and the
\* session that appears has the values of a new session after its first
\* frame (cursor 0, timer 0, both image counters 0, then at most one tick).
C11_ReturnDiscards ==
    /\ [](\A a \in Assets : HasSession(a) => ~Session(a).should_return_home)
    /\ [][\A dt \in DtSet :
            (MainApp_update("none", TRUE, dt, TRUE) /\ ~crashed') =>
                /\ current_page' = "Selection"
                /\ \A a \in Assets : charts'[a] = None
                /\ data_receiver' = None
                /\ \A c \in 1..Len(workers') : workers'[c].queue = <<>>]_vars
    /\ [][(data_receiver' # None /\ data_receiver' # data_receiver) =>
            /\ Len(workers') = Len(workers) + 1
            /\ data_receiver' = Some(Len(workers'))
            /\ workers'[Len(workers')].status = "running"]_vars
    /\ [][\A a \in Assets : (charts[a] = None /\ charts'[a] # None) =>
            /\ data_receiver # None
            /\ workers[data_receiver[1]].queue # <<>>
            /\ workers[data_receiver[1]].coin = a
            /\ FreshAfterOneFrame(charts'[a][1])]_vars

\* the one fetch was delivered, and its session has been left again
C11_Witness ==
    /\ ~crashed
    /\ Len(workers) = 1
    /\ workers[1].status = "done"
    /\ workers[1].queue = <<>>
    /\ data_receiver = None
    /\ current_page = "Selection"
    /\ \A a \in Assets : charts[a] = None

\* the message of the current fetch was taken from the channel and no
\* session came of it: new_from_data returned Err (104-105)
AudioInitFailed ==
    /\ data_receiver # None
    /\ workers[data_receiver[1]].status = "done"
    /\ workers[data_receiver[1]].queue = <<>>

\* C12: once the audio output failed to initialise for a delivered message,
\* the process has been terminated; it is never still running in Selection.
C12_AudioFailureAborts == AudioInitFailed => crashed

\* the slot the render step of the next frame unwraps is empty
SelectedEmpty(self) ==
    /\ Len(self.daily_prices) > 0
    /\ self.current_index > 0
    /\ self.current_texture_index \notin SelectedPool(self)

\* C13: the slot of a mascot file that does not open stays empty, and that
\* alone ends nothing: the process is terminated only over an empty series,
\* a file that does not decode, or, with current_index > 0, an empty selected
\* slot (so never by a texture while current_index = 0); and every frame that
\* starts with current_index > 0 and the selected slot empty terminates it.
C13_MissingMascot ==
    /\ [](\A a \in Assets : HasSession(a) =>
            /\ \A i \in 0..6 : FileOf("bull", i) \in assets.missing
                    => i \notin Session(a).bull_textures
            /\ \A i \in 0..3 : FileOf("bear", i) \in assets.missing
                    => i \notin Session(a).bear_textures)
    /\ [](crashed => \E a \in Assets :
            /\ HasSession(a)
            /\ \/ Len(Session(a).daily_prices) = 0
               \/ assets.corrupt # {}
               \/ SelectedEmpty(Session(a)))
    /\ [][\A a \in Assets, back \in BOOLEAN, dt \in DtSet :
            (/\ HasSession(a)
             /\ SelectedEmpty(Session(a))
             /\ MainApp_update("none", back, dt, TRUE)) => crashed']_vars

\* bull2.png does not open: the session played day 1 with bull1.png, and was
\* terminated on day 2, whose slot is empty
C13_Witness ==
    /\ crashed
    /\ assets = [missing |-> {FileOf("bull", 1)}, corrupt |-> {}]
    /\ HasSession("ethereum")
    /\ Session("ethereum").current_index = 2
    /\ Session("ethereum").current_texture_index = 1
    /\ SelectedEmpty(Session("ethereum"))

AtReset(a) == a.scale = 800 /\ a.opacity = 0

\* C14: a frame that advances the cursor ends with scale 0.8 and opacity 0.0;
\* a step that does not advance it moves scale and opacity only by
\* animate(dt), and never brings them onto (0.8, 0.0) from other values.
C14_ResetOnTick ==
    [][\A a \in Assets : Kept(a) =>
        /\ Advanced(a) => AtReset(charts'[a][1].image_animation)
        /\ ~Advanced(a) =>
            /\ \E dt \in DtSet :
                  charts'[a][1].image_animation = animate(Before(a).image_animation, dt)
            /\ AtReset(charts'[a][1].image_animation)
                  => AtReset(Before(a).image_animation)]_vars

\* the second tick of a session has just happened
C14_Witness ==
    \E a \in Assets :
        /\ HasSession(a)
        /\ ~crashed
        /\ Session(a).current_index = 2
        /\ Session(a).animation_timer = 0
        /\ Session(a).sink = 1
        /\ AtReset(Session(a).image_animation)

\* C15: the receiver the router holds is always the channel of the latest
\* click and loading_state names that click's asset; no message waits on a
\* channel of an earlier click; and a frame that enters a chart page enters
\* the page of the latest click, taking the message of its channel.
C15_LatestClickOnly ==
    /\ [](data_receiver # None =>
            /\ data_receiver = Some(Len(workers))
            /\ loading_state = Loading(LoadingName(workers[Len(workers)].coin)))
    /\ [](\A c \in 1..Len(workers) :
            workers[c].queue # <<>> =>
                /\ data_receiver = Some(c)
                /\ workers[c].queue[1].coin = workers[c].coin)
    /\ [][\A a \in Assets : (charts[a] = None /\ charts'[a] # None) =>
            /\ a = workers[Len(workers)].coin
            /\ workers[Len(workers)].queue # <<>>
            /\ \A c \in 1..Len(workers) : workers'[c].queue = <<>>]_vars
    /\ [][current_page' \notin {current_page, "Selection"} =>
            current_page' = PageOf(workers[Len(workers)].coin)]_vars

\* Bitcoin was clicked while the fetch of Ethereum was in flight, and the
\* router entered the Bitcoin page with the Ethereum fetch still in flight
C15_Witness ==
    /\ Len(workers) = 2
    /\ workers[1].coin = "ethereum"
    /\ workers[1].status = "running"
    /\ workers[2].coin = "bitcoin"
    /\ workers[2].status = "done"
    /\ data_receiver = None
    /\ loading_state = NotLoading
    /\ current_page = "BtcChart"
    /\ HasSession("bitcoin")

\* C16: between frames at most one of the three sessions exists, the page is
\* the chart page of an asset exactly when the session of that asset exists,
\* and the page is Selection exactly when no session exists.
C16_PageMatchesSession ==
    /\ Cardinality({a \in Assets : charts[a] # None}) <= 1
    /\ current_page = "EthChart" <=> charts["ethereum"] # None
    /\ current_page = "BtcChart" <=> charts["bitcoin"] # None
    /\ current_page = "XrpChart" <=> charts["ripple"] # None
    /\ current_page = "Selection" <=> (\A a \in Assets : charts[a] = None)

\* the Ripple page after the Ethereum page: the second click's session is
\* the only one
C16_Witness ==
    /\ Len(workers) = 2
    /\ workers[1].coin = "ethereum"
    /\ workers[1].status = "done"
    /\ current_page = "XrpChart"
    /\ charts["ripple"] # None
    /\ charts["ethereum"] = None
    /\ charts["ripple"][1].current_index = 1

\* C17: whenever the render step reads a texture (current_index > 0),
\* current_texture_index is below 7 if the pool it selects is the bullish one
\* (price[i] >= price[i-1], equal prices included) and below 4 if it is the
\* bearish one.
C17_TextureIndexInPool ==
    \A a \in Assets :
        (/\ HasSession(a)
         /\ Len(Session(a).daily_prices) > 0
         /\ Session(a).current_index > 0) =>
            /\ IsBullish(Session(a)) => Session(a).current_texture_index < 7
            /\ ~IsBullish(Session(a)) => Session(a).current_texture_index < 4

\* four days of an unchanged price: the index is the bearish counter's
\* largest, 3, and the render step reads it from the bullish pool
C17_Witness ==
    /\ ~crashed
    /\ HasSession("ethereum")
    /\ Session("ethereum").current_index = 4
    /\ Session("ethereum").daily_prices[5].price = Session("ethereum").daily_prices[4].price
    /\ IsBullish(Session("ethereum"))
    /\ Session("ethereum").current_texture_index = 3
    /\ Session("ethereum").image_sequencer.bull_index = 0

\* C18: between frames loading_state is Loading exactly when data_receiver is
\* present, and then the page is Selection; a click sets both, a frame that
\* builds a session clears both, and a step that changes either is one of
\* these two.
C18_LoadingIffReceiver ==
    /\ [](loading_state # NotLoading <=> data_receiver # None)
    /\ [](data_receiver # None => current_page = "Selection")
    /\ [][Len(workers') > Len(workers) =>
            /\ data_receiver' = Some(Len(workers'))
            /\ loading_state' = Loading(LoadingName(workers'[Len(workers')].coin))]_vars
    /\ [][(\E a \in Assets : charts[a] = None /\ charts'[a] # None) =>
            /\ data_receiver' = None
            /\ loading_state' = NotLoading]_vars
    /\ [][(loading_state' # loading_state \/ data_receiver' # data_receiver) =>
            \/ Len(workers') > Len(workers)
            \/ /\ data_receiver # None
               /\ workers[data_receiver[1]].queue # <<>>
               /\ workers'[data_receiver[1]].queue = <<>>
               /\ data_receiver' = None
               /\ loading_state' = NotLoading]_vars

\* the message of the Ripple fetch was taken and no session came of it:
\* both are still set, on Selection
C18_Witness ==
    /\ ~crashed
    /\ Len(workers) = 1
    /\ workers[1].coin = "ripple"
    /\ AudioInitFailed
    /\ data_receiver = Some(1)
    /\ loading_state = Loading("Ripple")
    /\ current_page = "Selection"

\* C19: in a session over a series of n >= 1 days whose frames keep coming
\* with elapsed time, whose tones finish and whose user does not go back,
\* the cursor eventually is n-1; the ticks so far (one pick of an image
\* counter each) always number current_index, so n-1 when it gets there.
C19_PlaysToEnd ==
    /\ [](\A a \in Assets :
            (HasSession(a) /\ Len(Session(a).daily_prices) >= 1) =>
                Session(a).image_sequencer.bull_index
                    + Session(a).image_sequencer.bear_index = Session(a).current_index)
    /\ \A a \in Assets :
          (HasSession(a) /\ Len(Session(a).daily_prices) >= 1) ~> Finished(a)

\* a series of MaxLen days played to its last day, the last tone finished
C19_Witness ==
    /\ Finished("ethereum")
    /\ Len(Session("ethereum").daily_prices) = MaxLen
    /\ Session("ethereum").current_index = MaxLen - 1
    /\ Session("ethereum").sink = 0

\* the message of the fetch of the latest click, for asset a, has arrived
Ready(a) ==
    /\ data_receiver # None
    /\ workers[data_receiver[1]].queue # <<>>
    /\ workers[data_receiver[1]].coin = a

Entered(a) ==
    /\ current_page = PageOf(a)
    /\ HasSession(a)
    /\ loading_state = NotLoading
    /\ data_receiver = None
    /\ \A c \in 1..Len(workers) : workers[c].queue = <<>>

\* C20: when the fetch of the latest click has sent its message, the audio
\* output initialises and frames keep coming, the router eventually is on
\* the chart page of the clicked asset; the frame that takes the message
\* sets the page, NotLoading and no receiver together; and a worker sends
\* at most one message, once, which that frame removes.
C20_EventuallyEntered ==
    /\ \A a \in Assets : Ready(a) ~> Entered(a)
    /\ [][\A a \in Assets :
            (Ready(a) /\ workers'[data_receiver[1]].queue # workers[data_receiver[1]].queue)
                => Entered(a)']_vars
    /\ [](\A c \in 1..Len(workers) : Len(workers[c].queue) <= 1)
    /\ [][\A c \in 1..Len(workers) :
            (workers[c].queue = <<>> /\ workers'[c].queue # <<>>) =>
                /\ workers[c].status = "running"
                /\ workers'[c].status = "done"]_vars

\* the Bitcoin page entered from the message of the second click, the
\* fetch of the first having failed
C20_Witness ==
    /\ ~crashed
    /\ Len(workers) = 2
    /\ workers[1].status = "failed"
    /\ workers[2].coin = "bitcoin"
    /\ workers[2].status = "done"
    /\ Entered("bitcoin")
    /\ Session("bitcoin").current_index = 0

\* v1 lies between v and the target t, on the side of t where v is
Toward(v, v1, t) ==
    /\ v <= t => (v <= v1 /\ v1 <= t)
    /\ v >= t => (t <= v1 /\ v1 <= v)

\* C21: in every step between two ticks (a frame that does not advance the
\* cursor), scale and opacity end between their values before the frame and
\* their targets 1.0 and 1.0: animate(dt) neither overshoots the target nor
\* moves away from it, whatever dt >= 0 the frame has.
C21_NoOvershoot ==
    [][\A a \in Assets : (Kept(a) /\ ~Advanced(a)) =>
        /\ Toward(Before(a).image_animation.scale,
                  charts'[a][1].image_animation.scale, 1000)
        /\ Toward(Before(a).image_animation.opacity,
                  charts'[a][1].image_animation.opacity, 1000)]_vars

====
